---- MODULE Spec2Model ----
(***************************************************************************)
(* Change-capture-and-broadcast pipeline of rivshr27/real-time-db-updates. *)
(*                                                                         *)
(*   src/changeListener.js   ChangeListener: cursor, poll ticks,           *)
(*                           processChange, safeJSONParse, broadcastChange,*)
(*                           cleanupOldChanges, start/stop                 *)
(*   src/server.js           the WebSocket server's connection handler     *)
(*                           (INITIAL_DATA snapshot) and process lifecycle *)
(*   src/unnamed/part_000    the orders table, the order_changes table     *)
(*                           (change log) and its triggers, getAllOrders   *)
(*   src/unnamed/part_001    BinlogListener, the binlog variant of the     *)
(*                           listener (used by no other file)              *)
(*                                                                         *)
(* An async function is one action per run between two awaits.  A store    *)
(* query takes effect in the action that issues it and its continuation is *)
(* the next action of the caller: the store's step touches the table only  *)
(* and the caller's step does not touch the table, so every interleaving   *)
(* in which the store runs the query later is a reordering of independent  *)
(* steps of one modelled here.  A query that throws has no effect on the   *)
(* store, and where the catch that receives it only logs and returns, the  *)
(* call ends in the action that issued the query.  The SELECT of           *)
(* getAllOrders is the exception: its result is what the connection is     *)
(* sent, so it is drawn from every state the orders table had between the  *)
(* call and the resolution (GetAllOrders).                                 *)
(***************************************************************************)
EXTENDS Integers, Sequences, FiniteSets, TLC

\* ------------------------------------------------------------------ bounds
\* Rows the triggers ever append to order_changes.
MaxRecords == 3
\* Poll callbacks that may be in flight at once (setInterval does not wait).
MaxTicks == 2
\* WebSocket connections ever accepted.
MaxConns == 2
\* Faults in one run: store queries that throw and sends that throw.
MaxFaults == 1
\* Process restarts.
MaxRestarts == 1
\* LIMIT of the poll query, scaled down from 50 (changeListener.js:54).
FetchLimit == 2
\* Interval timers and pending start() calls a listener is driven to.
MaxTimers == 3
\* OFFSET of the retention query, scaled down from 1000 (changeListener.js:157).
RetentionOffset == 1

\* --------------------------------------------------------- program constants
\* WebSocket readyState values (ws): CONNECTING, OPEN, CLOSING, CLOSED.
CONNECTING == 0
OPEN == 1
CLOSING == 2
CLOSED == 3

Ticks == 1..MaxTicks
Conns == 1..MaxConns

VARIABLES
    orders,           \* the orders table, as the number of statements
                      \* applied to it so far (its version)
    log,              \* order_changes: id -> row, the rows present
    nextId,           \* order_changes AUTO_INCREMENT counter
    phase,            \* the server process: "up", "stopping", "down"
    startPending,     \* the start() calls awaiting initializeLastProcessedId
    isListening,      \* ChangeListener.isListening
    pollInterval,     \* ChangeListener.pollInterval: 0 is null, 1 the handle
                      \* of the timer set last
    timers,           \* the interval timers set and not cleared
    lastProcessedId,  \* ChangeListener.lastProcessedId, the cursor
    pc,               \* per poll callback: where checkForChanges is suspended
    changes,          \* per poll callback: the fetched rows still to loop over
    clients,          \* wss.clients in insertion order
    readyState,       \* per connection
    snap,             \* per connection: "fetching" while getAllOrders is
                      \* pending, else "none"
    stalled,          \* the connections whose peer has stopped reading
    snapFrom,         \* per connection: the version of orders when the
                      \* pending getAllOrders was called (0: none pending)
    joinPublished,    \* per connection: the ids published before it joined
    sent,             \* per connection: the messages passed to send on it
                      \* so far (forgotten once the socket is closed)
    bufferedAmount,   \* per connection: how many of them ws still holds in
                      \* its buffer, not yet written to the socket
    published,        \* ids handed to broadcastChange, ever
    lastPublish,      \* the last broadcastChange call of this process
    markFailed,       \* ids whose UPDATE threw in this process
    faults,           \* faults so far
    lastFault,        \* the call that threw last: "none", "start", "fetch",
                      \* "mark", "cleanup", "snapshot", "send"
    epoch,            \* process restarts so far
    mysqlEvents,      \* BinlogListener.mysqlEvents: "null", or the MySQLEvents
                      \* object it refers to, "live" or "dead" (stopped or
                      \* failed to start)
    binlogIsListening,\* BinlogListener.isListening
    connecting,       \* BinlogListener.start() calls awaiting getConnection
    starting,         \* ... awaiting mysqlEvents.start()
    leaked,           \* live MySQLEvents objects nothing refers to any more
    stopAwait,        \* the stop() calls awaiting mysqlEvents.stop(): "stop"
                      \* is the owner's call, "restart" the one of restart()
    restartTimers,    \* setTimeout timers of restart() not yet fired
    fallbackTimers,   \* setInterval timers of startPollingFallback (the
                      \* handle is not kept: none is ever cleared)
    stopCompleted,    \* the owner's stop() has completed
    binlogSent        \* calls of BinlogListener.broadcastChange so far

vars == <<orders, log, nextId, phase, startPending, isListening,
          pollInterval, timers, lastProcessedId, pc, changes, clients, readyState,
          snap, stalled, snapFrom, joinPublished, sent, bufferedAmount,
          published,
          lastPublish, markFailed, faults, lastFault, epoch, mysqlEvents,
          binlogIsListening, connecting, starting, leaked, stopAwait,
          restartTimers, fallbackTimers, stopCompleted, binlogSent>>

listenerVars ==
    <<isListening, pollInterval, timers, lastProcessedId>>
tickVars == <<pc, changes>>
joinVars == <<snapFrom, joinPublished>>
connVars == <<clients, readyState, snap, stalled, joinVars>>
sockVars == <<sent, bufferedAmount>>
faultVars == <<faults, lastFault>>
histVars == <<published, lastPublish, markFailed>>
binlogVars == <<mysqlEvents, binlogIsListening, connecting, starting, leaked,
                stopAwait, restartTimers, fallbackTimers, stopCompleted,
                binlogSent>>
pipelineVars == <<orders, log, nextId, phase, startPending, listenerVars,
                  tickVars, connVars, sockVars, histVars, epoch>>

\* ------------------------------------------------------------------ values
\* A JS value of a JSON column: null, an object already structured by the
\* driver, or a string (parseable JSON text, the text "[object Object]", or
\* any other text).
Null == [form |-> "null", val |-> 0]
Obj(e) == [form |-> "object", val |-> e]
Text(e) == [form |-> "text", val |-> e]
Placeholder == [form |-> "placeholder", val |-> 0]
Garbage == [form |-> "garbage", val |-> 0]

\* The rows the store is fed: the INSERT the trigger writes, and an INSERT
\* whose payload was serialized as "[object Object]".  order_id is the id
\* of the order (NEW.id); the column is nullable, and 0 stands for NULL.
TriggerInsert ==
    [order_id |-> 1, operation_type |-> "INSERT", old_data |-> Null,
     new_data |-> Text(1)]

PlaceholderInsert ==
    [order_id |-> 1, operation_type |-> "INSERT", old_data |-> Null,
     new_data |-> Placeholder]

RowTemplates == {TriggerInsert, PlaceholderInsert}

\* The values a JSON column of order_changes can hold, and the rows made of
\* them: every operation with every pair of payloads, with and without an
\* order_id.
Payloads == {Null, Obj(1), Obj(2), Text(1), Text(2), Placeholder, Garbage}

AllRows == [order_id : {0, 1}, operation_type : {"INSERT", "UPDATE", "DELETE"},
            old_data : Payloads, new_data : Payloads]

\* A broadcastChange call: the sockets that were OPEN, those of them in
\* wss.clients, those send was called on, the one whose send threw, and the
\* sockets whose peer was not reading.
NoPublish == [changeId |-> 0, joined |-> {}, open |-> {}, attempted |-> {},
              failed |-> {}, stalled |-> {}]

\* ------------------------------------------------------------ pure helpers
RECURSIVE SortedSeq(_)
SortedSeq(S) ==
    IF S = {} THEN <<>>
    ELSE LET m == CHOOSE x \in S : \A y \in S : x <= y
         IN <<m>> \o SortedSeq(S \ {m})

Take(s, n) == IF Len(s) <= n THEN s ELSE SubSeq(s, 1, n)

SetMax(S) == CHOOSE x \in S : \A y \in S : y <= x

SeqSet(s) == {s[k] : k \in 1..Len(s)}

Row(id) == [id |-> id] @@ log[id]

\* Mutant of MaxProcessedId: the WHERE processed = 1 is missing.
MaxProcessedIdAnyRow ==
    IF DOMAIN log = {} THEN 0 ELSE SetMax(DOMAIN log)

\* SELECT MAX(id) FROM order_changes WHERE processed = 1, then
\* result[0]?.max_id || 0
MaxProcessedId ==
    LET P == {i \in DOMAIN log : log[i].processed}
    IN IF P = {} THEN 0 ELSE SetMax(P)

\* SELECT * FROM order_changes WHERE id > ? AND processed = 0
\* ORDER BY id ASC LIMIT 50
FetchUnprocessed(after) ==
    LET S == {i \in DOMAIN log : i > after /\ ~log[i].processed}
        ids == Take(SortedSeq(S), FetchLimit)
    IN [k \in 1..Len(ids) |-> Row(ids[k])]

\* safeJSONParse
safeJSONParse(jsonString) ==
    IF jsonString.form = "null" THEN Null
    ELSE IF jsonString.form = "object" THEN jsonString
    ELSE IF jsonString.form = "placeholder" THEN Null
    ELSE IF jsonString.form = "text" THEN Obj(jsonString.val)
    ELSE Null

\* Mutant of ChangeData: the DELETE case reads new_data.
ChangeDataDeleteFromNew(change) ==
    LET base == [type |-> change.operation_type, changeId |-> change.id,
                 data |-> Null, oldData |-> Null, newData |-> Null]
    IN CASE change.operation_type = "INSERT" ->
              [base EXCEPT !.data = safeJSONParse(change.new_data)]
         [] change.operation_type = "UPDATE" ->
              [base EXCEPT !.oldData = safeJSONParse(change.old_data),
                           !.newData = safeJSONParse(change.new_data),
                           !.data = safeJSONParse(change.new_data)]
         [] change.operation_type = "DELETE" ->
              [base EXCEPT !.data = safeJSONParse(change.new_data)]
         [] OTHER -> base

\* processChange up to the broadcast: the changeData it builds.
ChangeData(change) ==
    LET base == [type |-> change.operation_type, changeId |-> change.id,
                 data |-> Null, oldData |-> Null, newData |-> Null]
    IN CASE change.operation_type = "INSERT" ->
              [base EXCEPT !.data = safeJSONParse(change.new_data)]
         [] change.operation_type = "UPDATE" ->
              [base EXCEPT !.oldData = safeJSONParse(change.old_data),
                           !.newData = safeJSONParse(change.new_data),
                           !.data = safeJSONParse(change.new_data)]
         [] change.operation_type = "DELETE" ->
              [base EXCEPT !.data = safeJSONParse(change.old_data)]
         [] OTHER -> base

\* if (changeData.data): null is the only falsy value a payload parses to.
Truthy(v) == v.form # "null"

\* The rows of the orders table at version v.
Orders(v) == [form |-> "orders", val |-> v]

\* The INITIAL_DATA message of server.js for the rows `rows`.
InitialData(rows) == [type |-> "INITIAL_DATA", changeId |-> 0,
                      data |-> rows, oldData |-> Null, newData |-> Null]

\* ------------------------------------------------------------------- state
\* new BinlogListener(database, wss), and its owner has called start().
BinlogInit ==
    /\ mysqlEvents = "null"
    /\ binlogIsListening = FALSE
    /\ connecting = 1
    /\ starting = 0
    /\ leaked = 0
    /\ stopAwait = {}
    /\ restartTimers = 0
    /\ fallbackTimers = 0
    /\ stopCompleted = FALSE
    /\ binlogSent = 0

Init ==
    /\ orders = 0
    /\ log = << >>
    /\ nextId = 1
    /\ phase = "up"
    /\ startPending = 1
    /\ isListening = FALSE
    /\ pollInterval = 0
    /\ timers = 0
    /\ lastProcessedId = 0
    /\ pc = [t \in Ticks |-> "idle"]
    /\ changes = [t \in Ticks |-> << >>]
    /\ clients = << >>
    /\ readyState = [c \in Conns |-> CONNECTING]
    /\ snap = [c \in Conns |-> "none"]
    /\ stalled = {}
    /\ snapFrom = [c \in Conns |-> 0]
    /\ joinPublished = [c \in Conns |-> {}]
    /\ sent = [c \in Conns |-> << >>]
    /\ bufferedAmount = [c \in Conns |-> 0]
    /\ published = {}
    /\ lastPublish = NoPublish
    /\ markFailed = {}
    /\ faults = 0
    /\ lastFault = "none"
    /\ epoch = 0
    /\ BinlogInit

\* A call throws / no call throws.
Fault(kind) == faults' = faults + 1 /\ lastFault' = kind
NoFault == UNCHANGED faultVars

\* ------------------------------------------------- the store's other writers
\* A statement changes the orders table and its trigger of part_000 appends
\* the row that describes the change to order_changes (processed = FALSE).
AppendChange(tpl) ==
    /\ nextId <= MaxRecords
    /\ orders' = orders + 1
    /\ log' = (nextId :> (tpl @@ [processed |-> FALSE])) @@ log
    /\ nextId' = nextId + 1
    /\ UNCHANGED <<phase, startPending, listenerVars, tickVars, connVars,
                   sockVars, histVars, faultVars, epoch>>
    /\ UNCHANGED binlogVars

\* ------------------------------------------------------------ ChangeListener
\* initializeLastProcessedId: the cursor is the maximum processed id; when
\* the query throws, its catch sets the cursor to 0.
InitializeLastProcessedId(ok) ==
    lastProcessedId' = IF ok THEN MaxProcessedId ELSE 0

\* start() resumes after initializeLastProcessedId, then startPolling() and
\* isListening = true.
StartResume ==
    /\ phase # "down"
    /\ startPending > 0
    /\ \E ok \in BOOLEAN :
          /\ ~ok => faults < MaxFaults
          /\ IF ok THEN NoFault ELSE Fault("start")
          /\ InitializeLastProcessedId(ok)
    /\ startPending' = startPending - 1
    /\ pollInterval' = 1
    /\ timers' = timers + 1
    /\ isListening' = TRUE
    /\ UNCHANGED <<log, orders, nextId, phase, tickVars, connVars, sockVars,
                   histVars, epoch>>
    /\ UNCHANGED binlogVars

\* A caller other than server.js calls start(): the call returns at once
\* when isListening is set, else it awaits initializeLastProcessedId.
\* Nothing records that a start() is already awaiting.
StartCall ==
    /\ phase = "up"
    /\ ~isListening
    /\ startPending + timers < MaxTimers
    /\ startPending' = startPending + 1
    /\ UNCHANGED <<log, orders, nextId, phase, listenerVars, tickVars,
                   connVars, sockVars, histVars, faultVars, epoch>>
    /\ UNCHANGED binlogVars

\* checkForChanges returns: the callback's locals are dead.
TickEnd(t) ==
    /\ pc' = [pc EXCEPT ![t] = "idle"]
    /\ changes' = [changes EXCEPT ![t] = << >>]

\* Mutant of TickStart: a poll query that throws ends the polling
\* (clearInterval).
TickStartFatal(t) ==
    /\ phase # "down"
    /\ timers > 0
    /\ pc[t] = "idle"
    /\ \A u \in Ticks : u < t => pc[u] # "idle"
    /\ \/ /\ changes' = [changes EXCEPT ![t] = FetchUnprocessed(lastProcessedId)]
          /\ pc' = [pc EXCEPT ![t] = "fetched"]
          /\ NoFault
          /\ UNCHANGED <<pollInterval, timers>>
       \/ /\ faults < MaxFaults
          /\ Fault("fetch")
          /\ pollInterval' = 0
          /\ timers' = timers - 1
          /\ UNCHANGED <<pc, changes>>
    /\ UNCHANGED <<log, orders, nextId, phase, startPending, isListening,
                   lastProcessedId, connVars, sockVars, histVars, epoch>>
    /\ UNCHANGED binlogVars

\* The interval timer fires: the callback calls checkForChanges, which runs
\* the poll query with the cursor of that moment.  Nothing looks at another
\* callback still in flight.  When the query throws, the catch logs and the
\* tick is over.  (Callbacks are interchangeable: the lowest idle one is
\* taken.)
TickStart(t) ==
    /\ phase # "down"
    /\ timers > 0
    /\ pc[t] = "idle"
    /\ \A u \in Ticks : u < t => pc[u] # "idle"
    /\ \/ /\ changes' = [changes EXCEPT ![t] = FetchUnprocessed(lastProcessedId)]
          /\ pc' = [pc EXCEPT ![t] = "fetched"]
          /\ NoFault
       \/ /\ faults < MaxFaults
          /\ Fault("fetch")
          /\ UNCHANGED <<pc, changes>>
    /\ UNCHANGED <<log, orders, nextId, phase, startPending, listenerVars,
                   connVars, sockVars, histVars, epoch>>
    /\ UNCHANGED binlogVars

\* Mutant of OpenClients: the readyState test of broadcastChange is missing.
AllClients == clients

\* The open connections in the order wss.clients.forEach visits them.
OpenClients == SelectSeq(clients, LAMBDA c : readyState[c] = OPEN)

\* Mutant of BroadcastChange: each send is awaited before the next client is
\* visited, so forEach does not get past a client whose peer is not reading.
BroadcastChangeAwaitingSends(changeData, thrower) ==
    LET open == OpenClients
        stuck == {k \in 1..Len(open) : open[k] \in stalled \cup {thrower}}
        upto == IF stuck = {} THEN Len(open)
                ELSE CHOOSE k \in stuck : \A j \in stuck : k <= j
        reached == {open[k] : k \in 1..upto} \ {thrower}
    IN /\ sent' = [c \in Conns |->
                     IF c \in reached THEN Append(sent[c], changeData)
                     ELSE sent[c]]
       /\ bufferedAmount' = [c \in Conns |->
                     IF c \in reached \cap stalled
                     THEN bufferedAmount[c] + 1 ELSE bufferedAmount[c]]
       /\ lastPublish' = [changeId |-> changeData.changeId,
                          joined |-> {c \in Conns : readyState[c] = OPEN},
                          open |-> SeqSet(open),
                          attempted |-> {open[k] : k \in 1..upto},
                          failed |-> {thrower} \ {0},
                          stalled |-> stalled]
       /\ published' = published \cup {changeData.changeId}

\* broadcastChange: forEach over wss.clients, send to each OPEN one.  A send
\* that throws leaves forEach: the clients after `thrower` are not visited
\* (thrower = 0: no send throws).
BroadcastChange(changeData, thrower) ==
    LET open == OpenClients
        upto == IF thrower = 0 THEN Len(open)
                ELSE CHOOSE k \in 1..Len(open) : open[k] = thrower
        reached == {open[k] : k \in 1..upto} \ {thrower}
    IN /\ sent' = [c \in Conns |->
                     IF c \in reached THEN Append(sent[c], changeData)
                     ELSE sent[c]]
       /\ bufferedAmount' = [c \in Conns |->
                     IF c \in reached \cap stalled
                     THEN bufferedAmount[c] + 1 ELSE bufferedAmount[c]]
       /\ lastPublish' = [changeId |-> changeData.changeId,
                          joined |-> {c \in Conns : readyState[c] = OPEN},
                          open |-> SeqSet(open),
                          attempted |-> {open[k] : k \in 1..upto},
                          failed |-> {thrower} \ {0},
                          stalled |-> stalled]
       /\ published' = published \cup {changeData.changeId}

\* Mutant of ProcessChange: the call of broadcastChange is missing.
ProcessChangeWithoutBroadcast(change, thrower) ==
    /\ thrower = 0
    /\ UNCHANGED <<sockVars, lastPublish, published>>

\* processChange: build changeData, broadcast it when its data is truthy; an
\* exception of the broadcast is caught and logged.
ProcessChange(change, thrower) ==
    LET changeData == ChangeData(change)
    IN IF Truthy(changeData.data)
       THEN BroadcastChange(changeData, thrower)
       ELSE /\ thrower = 0
            /\ UNCHANGED <<sockVars, lastPublish, published>>

\* UPDATE order_changes SET processed = 1 WHERE id = ?
MarkProcessed(id) ==
    log' = IF id \in DOMAIN log THEN [log EXCEPT ![id].processed = TRUE]
           ELSE log

\* The cursor moves to the row just processed.
SetCursor(change) == lastProcessedId' = change.id

\* One pass of the for loop over `rows`, whose head is the current row:
\* processChange(change), then lastProcessedId = change.id, then the UPDATE.
\* When the UPDATE throws, the catch of checkForChanges logs and the tick is
\* over.
LoopBody(t, rows) ==
    \E thrower \in {0} \cup SeqSet(OpenClients), marked \in BOOLEAN :
       LET change == Head(rows)
           n == (IF thrower = 0 THEN 0 ELSE 1) + (IF marked THEN 0 ELSE 1)
       IN /\ faults + n <= MaxFaults
          /\ faults' = faults + n
          /\ lastFault' = IF ~marked THEN "mark"
                          ELSE IF thrower # 0 THEN "send" ELSE lastFault
          /\ ProcessChange(change, thrower)
          /\ SetCursor(change)
          /\ IF marked
             THEN /\ MarkProcessed(change.id)
                  /\ pc' = [pc EXCEPT ![t] = "marked"]
                  /\ changes' = [changes EXCEPT ![t] = rows]
                  /\ UNCHANGED markFailed
             ELSE /\ TickEnd(t)
                  /\ markFailed' = markFailed \cup {change.id}
                  /\ UNCHANGED log

\* checkForChanges resumes with the fetched rows.
FetchResume(t) ==
    /\ pc[t] = "fetched"
    /\ IF Len(changes[t]) = 0
       THEN /\ TickEnd(t)
            /\ UNCHANGED <<log, lastProcessedId, sockVars, histVars,
                           faultVars>>
       ELSE LoopBody(t, changes[t])
    /\ UNCHANGED <<orders, nextId, phase, startPending, isListening,
                   pollInterval, timers, connVars, epoch>>
    /\ UNCHANGED binlogVars

\* The id the retention DELETE compares with: the processed id at
\* OFFSET 1000 in descending order; no row when there are too few.
RetentionPivot ==
    LET P == {i \in DOMAIN log : log[i].processed}
    IN {p \in P : Cardinality({q \in P : q > p}) = RetentionOffset}

\* Mutant of CleanupOldChanges: the DELETE runs in the transaction of the
\* batch's UPDATEs, and its failure rolls their marks back.
CleanupOldChangesUndoingMarks(ok) ==
    LET gone == {i \in DOMAIN log :
                    log[i].processed /\ \E p \in RetentionPivot : i < p}
    IN log' = IF ok THEN [i \in DOMAIN log \ gone |-> log[i]]
              ELSE [i \in DOMAIN log |-> [log[i] EXCEPT !.processed = FALSE]]

\* Mutant of CleanupOldChanges: the DELETE has no id condition.
CleanupEveryProcessed(ok) ==
    LET gone == {i \in DOMAIN log : log[i].processed}
    IN log' = IF ok THEN [i \in DOMAIN log \ gone |-> log[i]] ELSE log

\* cleanupOldChanges: DELETE the processed rows below the pivot; an error
\* is swallowed.
CleanupOldChanges(ok) ==
    LET gone == {i \in DOMAIN log :
                    log[i].processed /\ \E p \in RetentionPivot : i < p}
    IN log' = IF ok THEN [i \in DOMAIN log \ gone |-> log[i]] ELSE log

\* checkForChanges resumes after the UPDATE: the next row, or the end of the
\* batch, where Math.random() < 0.1 decides on cleanupOldChanges.
MarkResume(t) ==
    /\ pc[t] = "marked"
    /\ \/ /\ Len(changes[t]) > 1
          /\ LoopBody(t, Tail(changes[t]))
       \/ /\ Len(changes[t]) = 1
          /\ TickEnd(t)
          /\ \/ UNCHANGED <<log, faultVars>>
             \/ \E ok \in BOOLEAN :
                   /\ ~ok => faults < MaxFaults
                   /\ IF ok THEN NoFault ELSE Fault("cleanup")
                   /\ CleanupOldChanges(ok)
          /\ UNCHANGED <<lastProcessedId, sockVars, histVars>>
    /\ UNCHANGED <<orders, nextId, phase, startPending, isListening,
                   pollInterval, timers, connVars, epoch>>
    /\ UNCHANGED binlogVars

\* stop(): clearInterval of the handle in pollInterval, if there is one,
\* and isListening = false, all synchronous.
Stop ==
    /\ timers' = IF pollInterval # 0 THEN timers - 1 ELSE timers
    /\ pollInterval' = 0
    /\ isListening' = FALSE

\* A caller calls stop() on the running listener.
StopCall ==
    /\ phase = "up"
    /\ Stop
    /\ UNCHANGED <<log, orders, nextId, phase, startPending, lastProcessedId,
                   tickVars, connVars, sockVars, histVars, faultVars, epoch>>
    /\ UNCHANGED binlogVars

\* ------------------------------------------------ BinlogListener (part_001)
\* The MySQLEvents objects that can still emit events.
LiveEmitters == (IF mysqlEvents = "live" THEN 1 ELSE 0) + leaked

\* start() is entered: it returns at once when isListening is set, else it
\* awaits database.getConnection().
BinlogStartEntry ==
    connecting' = IF binlogIsListening THEN connecting ELSE connecting + 1

\* startPollingFallback: setInterval, whose handle is dropped.
StartPollingFallback == fallbackTimers' = fallbackTimers + 1

\* start() resumes after getConnection.  Resolved: a new MySQLEvents object
\* is assigned to this.mysqlEvents (the object it referred to is no longer
\* referenced), the handlers are registered and mysqlEvents.start() is
\* awaited.  Rejected: the catch starts the polling fallback.
BinlogGetConnectionResume ==
    /\ connecting > 0
    /\ connecting' = connecting - 1
    /\ \/ /\ NoFault
          /\ leaked' = IF mysqlEvents = "live" THEN leaked + 1 ELSE leaked
          /\ mysqlEvents' = "live"
          /\ starting' = starting + 1
          /\ UNCHANGED fallbackTimers
       \/ /\ faults < MaxFaults
          /\ Fault("binlog")
          /\ StartPollingFallback
          /\ UNCHANGED <<mysqlEvents, leaked, starting>>
    /\ UNCHANGED <<pipelineVars, binlogIsListening, stopAwait, restartTimers,
                   stopCompleted, binlogSent>>

\* start() resumes after mysqlEvents.start().  Resolved: the object has
\* connected, if it was not stopped meanwhile, and its 'connect' handler
\* has set isListening.  Rejected: the object is dead and the catch starts
\* the polling fallback.
BinlogEventsStartResume ==
    /\ starting > 0
    /\ starting' = starting - 1
    /\ \/ /\ NoFault
          /\ binlogIsListening' = (binlogIsListening \/ LiveEmitters > 0)
          /\ UNCHANGED <<mysqlEvents, fallbackTimers>>
       \/ /\ faults < MaxFaults
          /\ Fault("binlog")
          /\ mysqlEvents' = IF mysqlEvents = "live" THEN "dead"
                            ELSE mysqlEvents
          /\ StartPollingFallback
          /\ UNCHANGED binlogIsListening
    /\ UNCHANGED <<pipelineVars, connecting, leaked, stopAwait,
                   restartTimers, stopCompleted, binlogSent>>

\* 'binlog' of a live object, for a row event of the orders table:
\* handleBinlogEvent builds changeData and calls broadcastChange.
HandleBinlogEvent ==
    /\ LiveEmitters > 0
    /\ binlogSent < MaxRecords
    /\ binlogSent' = binlogSent + 1
    /\ UNCHANGED <<pipelineVars, faultVars, mysqlEvents, binlogIsListening,
                   connecting, starting, leaked, stopAwait, restartTimers,
                   fallbackTimers, stopCompleted>>

\* stop() up to its await: with an object in this.mysqlEvents it calls
\* mysqlEvents.stop(), which ends that object, and awaits it.
BinlogStopAwait(kind) ==
    /\ mysqlEvents # "null"
    /\ kind \notin stopAwait
    /\ stopAwait' = stopAwait \cup {kind}
    /\ mysqlEvents' = "dead"
    /\ UNCHANGED <<binlogIsListening, leaked, restartTimers, stopCompleted>>

\* stop() from its await to its end, and what its caller does next: the
\* owner's call has completed; restart() sets its timer (whose handle is
\* dropped).
BinlogStopEnd(kind) ==
    /\ leaked' = IF mysqlEvents = "live" THEN leaked + 1 ELSE leaked
    /\ mysqlEvents' = "null"
    /\ binlogIsListening' = FALSE
    /\ IF kind = "restart"
       THEN restartTimers' = restartTimers + 1 /\ UNCHANGED stopCompleted
       ELSE stopCompleted' = TRUE /\ UNCHANGED restartTimers

\* stop() as a whole when this.mysqlEvents is null (nothing is awaited).
BinlogStopNow(kind) ==
    /\ mysqlEvents = "null"
    /\ binlogIsListening' = FALSE
    /\ IF kind = "restart"
       THEN restartTimers' = restartTimers + 1 /\ UNCHANGED stopCompleted
       ELSE stopCompleted' = TRUE /\ UNCHANGED restartTimers
    /\ UNCHANGED <<mysqlEvents, leaked, stopAwait>>

\* 'error' of a live object: the handler calls restart(), which awaits
\* stop().
BinlogError ==
    /\ LiveEmitters > 0
    /\ faults < MaxFaults
    /\ Fault("binlog")
    /\ BinlogStopAwait("restart") \/ BinlogStopNow("restart")
    /\ UNCHANGED <<pipelineVars, connecting, starting, fallbackTimers,
                   binlogSent>>

\* The owner of the listener calls stop().
BinlogStop ==
    /\ ~stopCompleted
    /\ BinlogStopAwait("stop") \/ BinlogStopNow("stop")
    /\ UNCHANGED <<pipelineVars, faultVars, connecting, starting,
                   fallbackTimers, binlogSent>>

\* mysqlEvents.stop() resolves and the stop() that awaited it goes on.
BinlogStopResume(kind) ==
    /\ kind \in stopAwait
    /\ stopAwait' = stopAwait \ {kind}
    /\ BinlogStopEnd(kind)
    /\ UNCHANGED <<pipelineVars, faultVars, connecting, starting,
                   fallbackTimers, binlogSent>>

\* The timer of restart() fires: start().
RestartTimeout ==
    /\ restartTimers > 0
    /\ restartTimers' = restartTimers - 1
    /\ BinlogStartEntry
    /\ UNCHANGED <<pipelineVars, faultVars, mysqlEvents, binlogIsListening,
                   starting, leaked, stopAwait, fallbackTimers,
                   stopCompleted, binlogSent>>

\* A timer of the polling fallback fires and its query returns rows
\* updated since the last one: broadcastChange for them.
PollingFallbackTick ==
    /\ fallbackTimers > 0
    /\ binlogSent < MaxRecords
    /\ binlogSent' = binlogSent + 1
    /\ UNCHANGED <<pipelineVars, faultVars, mysqlEvents, binlogIsListening,
                   connecting, starting, leaked, stopAwait, restartTimers,
                   fallbackTimers, stopCompleted>>

\* ------------------------------------------------------------------ server
\* wss 'connection': with clientTracking the socket is already in
\* wss.clients and OPEN when the handler runs; the handler calls
\* database.getAllOrders() and returns.  (Connections are interchangeable:
\* the lowest unused one is taken.)
Connection(c) ==
    /\ phase # "down"
    /\ readyState[c] = CONNECTING
    /\ \A d \in Conns : d < c => readyState[d] # CONNECTING
    /\ readyState' = [readyState EXCEPT ![c] = OPEN]
    /\ clients' = Append(clients, c)
    /\ snap' = [snap EXCEPT ![c] = "fetching"]
    /\ snapFrom' = [snapFrom EXCEPT ![c] = orders]
    /\ joinPublished' = [joinPublished EXCEPT ![c] = published]
    /\ UNCHANGED <<log, orders, nextId, phase, startPending, listenerVars,
                   tickVars, stalled, sockVars, histVars, faultVars, epoch>>
    /\ UNCHANGED binlogVars

\* Mutant of GetAllOrders: the rows read once when the server was started.
GetAllOrdersAtBoot(c) == {Orders(0)}

\* getAllOrders of connection c: SELECT * FROM orders.  The pool runs the
\* SELECT at some moment between the call (the join) and the resolution of
\* the promise, so it returns the table as it was at one of those moments.
GetAllOrders(c) == {Orders(v) : v \in snapFrom[c]..orders}

\* getAllOrders settles.  Resolved: the .then sends INITIAL_DATA, whatever
\* the socket's readyState; a socket that is not OPEN is written nothing.
\* Rejected: the .catch logs, nothing is sent.
SnapshotSettle(c) ==
    /\ snap[c] = "fetching"
    /\ snap' = [snap EXCEPT ![c] = "none"]
    /\ snapFrom' = [snapFrom EXCEPT ![c] = 0]
    /\ \/ /\ NoFault
          /\ \E rows \in GetAllOrders(c) :
                sent' = [sent EXCEPT ![c] =
                           IF readyState[c] = OPEN
                           THEN Append(@, InitialData(rows))
                           ELSE @]
          /\ bufferedAmount' = [bufferedAmount EXCEPT ![c] =
                           IF readyState[c] = OPEN /\ c \in stalled
                           THEN @ + 1 ELSE @]
       \/ /\ faults < MaxFaults
          /\ Fault("snapshot")
          /\ UNCHANGED sockVars
    /\ UNCHANGED <<log, orders, nextId, phase, startPending, listenerVars,
                   tickVars, clients, readyState, stalled, joinPublished,
                   histVars, epoch>>
    /\ UNCHANGED binlogVars

\* The peer stops reading: its TCP window fills, and from then on ws keeps
\* what is passed to send in its buffer (send has no limit and the code
\* never reads bufferedAmount).
ClientStall(c) ==
    /\ readyState[c] = OPEN
    /\ c \notin stalled
    /\ stalled' = stalled \cup {c}
    /\ UNCHANGED <<log, orders, nextId, phase, startPending, listenerVars,
                   tickVars, clients, readyState, snap, joinVars, sockVars,
                   histVars, faultVars, epoch>>
    /\ UNCHANGED binlogVars

\* The peer starts the closing handshake.
ClientClosing(c) ==
    /\ readyState[c] = OPEN
    /\ readyState' = [readyState EXCEPT ![c] = CLOSING]
    /\ UNCHANGED <<log, orders, nextId, phase, startPending, listenerVars,
                   tickVars, clients, snap, stalled, joinVars, sockVars,
                   histVars, faultVars, epoch>>
    /\ UNCHANGED binlogVars

\* The socket closes: ws removes it from wss.clients; the 'close' handler
\* of server.js only logs.
ClientClosed(c) ==
    /\ readyState[c] \in {OPEN, CLOSING}
    /\ readyState' = [readyState EXCEPT ![c] = CLOSED]
    /\ clients' = SelectSeq(clients, LAMBDA d : d # c)
    /\ stalled' = stalled \ {c}
    /\ joinPublished' = [joinPublished EXCEPT ![c] = {}]
    /\ sent' = [sent EXCEPT ![c] = << >>]
    /\ bufferedAmount' = [bufferedAmount EXCEPT ![c] = 0]
    /\ UNCHANGED <<log, orders, nextId, phase, startPending, listenerVars,
                   tickVars, snap, snapFrom, histVars, faultVars, epoch>>
    /\ UNCHANGED binlogVars

\* SIGTERM / SIGINT: changeListener.stop(), then database.close() is awaited.
Shutdown ==
    /\ phase = "up"
    /\ phase' = "stopping"
    /\ Stop
    /\ UNCHANGED <<log, orders, nextId, startPending, lastProcessedId,
                   tickVars, connVars, sockVars, histVars, faultVars, epoch>>
    /\ UNCHANGED binlogVars

\* process.exit: the callbacks, the timer and the sockets of the process go
\* with it.  (A crash leaves the same state as an exit right after the
\* signal.)
Exit ==
    /\ phase = "stopping"
    /\ phase' = "down"
    /\ startPending' = 0
    /\ isListening' = FALSE
    /\ pollInterval' = 0
    /\ timers' = 0
    /\ lastProcessedId' = 0
    /\ pc' = [t \in Ticks |-> "idle"]
    /\ changes' = [t \in Ticks |-> << >>]
    /\ clients' = << >>
    /\ readyState' = [c \in Conns |->
                        IF readyState[c] = CONNECTING THEN CONNECTING
                        ELSE CLOSED]
    /\ snap' = [c \in Conns |-> "none"]
    /\ stalled' = {}
    /\ snapFrom' = [c \in Conns |-> 0]
    /\ joinPublished' = [c \in Conns |-> {}]
    /\ sent' = [c \in Conns |-> << >>]
    /\ bufferedAmount' = [c \in Conns |-> 0]
    /\ lastPublish' = NoPublish
    /\ markFailed' = {}
    /\ UNCHANGED <<log, orders, nextId, published, faultVars, epoch>>
    /\ UNCHANGED binlogVars

\* The process is started again: new ChangeListener(wss), then start().
Boot ==
    /\ phase = "down"
    /\ epoch < MaxRestarts
    /\ epoch' = epoch + 1
    /\ phase' = "up"
    /\ startPending' = 1
    /\ UNCHANGED <<log, orders, nextId, listenerVars, tickVars, connVars,
                   sockVars, histVars, faultVars>>
    /\ UNCHANGED binlogVars

\* -------------------------------------------------------------------- spec
Next ==
    \/ \E tpl \in RowTemplates : AppendChange(tpl)
    \/ StartResume
    \/ \E t \in Ticks : TickStart(t)
    \/ \E t \in Ticks : FetchResume(t)
    \/ \E t \in Ticks : MarkResume(t)
    \/ \E c \in Conns : Connection(c)
    \/ \E c \in Conns : SnapshotSettle(c)
    \/ \E c \in Conns : ClientClosing(c)
    \/ \E c \in Conns : ClientClosed(c)
    \/ Shutdown
    \/ Exit
    \/ Boot

\* The whole system.
Spec == Init /\ [][Next]_vars

\* The poller and the process lifecycle, without subscribers: overlapping
\* poll callbacks, store faults, restarts.
PollNext ==
    \/ \E tpl \in RowTemplates : AppendChange(tpl)
    \/ StartResume
    \/ \E t \in Ticks : TickStart(t)
    \/ \E t \in Ticks : FetchResume(t)
    \/ \E t \in Ticks : MarkResume(t)
    \/ Shutdown
    \/ Exit
    \/ Boot

PollSpec == Init /\ [][PollNext]_vars

\* One process lifetime with overlapping poll callbacks and one subscriber;
\* every row is the trigger's INSERT.
OrderNext ==
    \/ AppendChange(TriggerInsert)
    \/ StartResume
    \/ \E t \in Ticks : TickStart(t)
    \/ \E t \in Ticks : FetchResume(t)
    \/ \E t \in Ticks : MarkResume(t)
    \/ Connection(1)
    \/ SnapshotSettle(1)
    \/ ClientClosing(1)
    \/ ClientClosed(1)

OrderSpec == Init /\ [][OrderNext]_vars

\* One process lifetime with one poll callback at a time and every
\* subscriber; every row is the trigger's INSERT.
FanNext ==
    \/ AppendChange(TriggerInsert)
    \/ StartResume
    \/ TickStart(1)
    \/ FetchResume(1)
    \/ MarkResume(1)
    \/ \E c \in Conns : Connection(c)
    \/ \E c \in Conns : SnapshotSettle(c)
    \/ \E c \in Conns : ClientClosing(c)
    \/ \E c \in Conns : ClientClosed(c)

FanSpec == Init /\ [][FanNext]_vars

\* One process lifetime with one poll callback at a time and one subscriber:
\* join, snapshot, publish and close in every order.
JoinNext ==
    \/ \E tpl \in RowTemplates : AppendChange(tpl)
    \/ StartResume
    \/ TickStart(1)
    \/ FetchResume(1)
    \/ MarkResume(1)
    \/ Connection(1)
    \/ SnapshotSettle(1)
    \/ ClientClosing(1)
    \/ ClientClosed(1)

JoinSpec == Init /\ [][JoinNext]_vars

\* One process lifetime with one poll callback at a time and subscribers
\* whose peers may stop reading; every row is the trigger's INSERT.
StallNext ==
    \/ AppendChange(TriggerInsert)
    \/ StartResume
    \/ TickStart(1)
    \/ FetchResume(1)
    \/ MarkResume(1)
    \/ \E c \in Conns : Connection(c)
    \/ \E c \in Conns : SnapshotSettle(c)
    \/ \E c \in Conns : ClientStall(c)

StallSpec == Init /\ [][StallNext]_vars

\* The process is started on a store that holds one unprocessed row, any
\* row of AllRows, and one subscriber joins: the normalizer on every input.
NormInit ==
    /\ orders = 1
    /\ \E row \in AllRows : log = (1 :> (row @@ [processed |-> FALSE]))
    /\ nextId = 2
    /\ phase = "up"
    /\ startPending = 1
    /\ isListening = FALSE
    /\ pollInterval = 0
    /\ timers = 0
    /\ lastProcessedId = 0
    /\ pc = [t \in Ticks |-> "idle"]
    /\ changes = [t \in Ticks |-> << >>]
    /\ clients = << >>
    /\ readyState = [c \in Conns |-> CONNECTING]
    /\ snap = [c \in Conns |-> "none"]
    /\ stalled = {}
    /\ snapFrom = [c \in Conns |-> 0]
    /\ joinPublished = [c \in Conns |-> {}]
    /\ sent = [c \in Conns |-> << >>]
    /\ bufferedAmount = [c \in Conns |-> 0]
    /\ published = {}
    /\ lastPublish = NoPublish
    /\ markFailed = {}
    /\ faults = 0
    /\ lastFault = "none"
    /\ epoch = 0
    /\ BinlogInit

NormNext ==
    \/ StartResume
    \/ TickStart(1)
    \/ FetchResume(1)
    \/ MarkResume(1)
    \/ Connection(1)
    \/ SnapshotSettle(1)

NormSpec == NormInit /\ [][NormNext]_vars

\* One process lifetime up to its exit, with one poll callback at a time and
\* one subscriber: the signal handler in every order with joins, publishes
\* and closes.
ShutNext ==
    \/ AppendChange(TriggerInsert)
    \/ StartResume
    \/ TickStart(1)
    \/ FetchResume(1)
    \/ MarkResume(1)
    \/ Connection(1)
    \/ SnapshotSettle(1)
    \/ ClientClosing(1)
    \/ ClientClosed(1)
    \/ Shutdown
    \/ Exit

ShutSpec == Init /\ [][ShutNext]_vars

\* The process is started on a store that holds MaxRecords + 1 rows, each
\* marked processed or not by earlier lifetimes: the poller and the sweep,
\* with nothing appended.
SweepInit ==
    /\ orders = MaxRecords + 1
    /\ \E P \in SUBSET (1..(MaxRecords + 1)) :
          log = [i \in 1..(MaxRecords + 1) |->
                   TriggerInsert @@ [processed |-> i \in P]]
    /\ nextId = MaxRecords + 2
    /\ phase = "up"
    /\ startPending = 1
    /\ isListening = FALSE
    /\ pollInterval = 0
    /\ timers = 0
    /\ lastProcessedId = 0
    /\ pc = [t \in Ticks |-> "idle"]
    /\ changes = [t \in Ticks |-> << >>]
    /\ clients = << >>
    /\ readyState = [c \in Conns |-> CONNECTING]
    /\ snap = [c \in Conns |-> "none"]
    /\ stalled = {}
    /\ snapFrom = [c \in Conns |-> 0]
    /\ joinPublished = [c \in Conns |-> {}]
    /\ sent = [c \in Conns |-> << >>]
    /\ bufferedAmount = [c \in Conns |-> 0]
    /\ published = {}
    /\ lastPublish = NoPublish
    /\ markFailed = {}
    /\ faults = 0
    /\ lastFault = "none"
    /\ epoch = 0
    /\ BinlogInit

SweepNext ==
    \/ StartResume
    \/ \E t \in Ticks : TickStart(t)
    \/ \E t \in Ticks : FetchResume(t)
    \/ \E t \in Ticks : MarkResume(t)

SweepSpec == SweepInit /\ [][SweepNext]_vars

\* The listener driven through its interface: start() and stop() called in
\* any order, also while a start() is awaiting, with overlapping callbacks
\* and no subscriber.
ApiNext ==
    \/ AppendChange(TriggerInsert)
    \/ StartCall
    \/ StartResume
    \/ StopCall
    \/ \E t \in Ticks : TickStart(t)
    \/ \E t \in Ticks : FetchResume(t)
    \/ \E t \in Ticks : MarkResume(t)

ApiSpec == Init /\ [][ApiNext]_vars

\* The binlog listener variant on its own: start, events, errors, restart,
\* the polling fallback, and one stop() by its owner.
BinlogNext ==
    \/ BinlogGetConnectionResume
    \/ BinlogEventsStartResume
    \/ HandleBinlogEvent
    \/ BinlogError
    \/ BinlogStop
    \/ \E kind \in {"stop", "restart"} : BinlogStopResume(kind)
    \/ RestartTimeout
    \/ PollingFallbackTick

BinlogSpec == Init /\ [][BinlogNext]_vars

\* ------------------------------------------------------------------ claims
InFlight == {t \in Ticks : pc[t] # "idle"}

\* The change ids of the live events in a connection's messages, in order.
LiveIds(c) ==
    LET live == SelectSeq(sent[c], LAMBDA m : m.type # "INITIAL_DATA")
    IN [k \in 1..Len(live) |-> live[k].changeId]

\* C1 (as claimed): a record whose UPDATE ... processed = 1 threw after its
\* event was published, and which is still unprocessed, lies above the
\* cursor, so that the next poll query fetches it again.
C1_CursorBelowFailedMark ==
    \A r \in markFailed :
       (r \in published /\ r \in DOMAIN log /\ ~log[r].processed)
          => lastProcessedId < r

\* C2 (as claimed): a fresh start leaves the cursor below every unprocessed
\* record, so that polling resumes from the lowest unprocessed id, also when
\* a processed record has a larger id.
C2_FreshStartBelowUnprocessed ==
    [][(startPending' < startPending /\ phase' # "down")
         => \A i \in DOMAIN log : ~log[i].processed => lastProcessedId' < i]_vars

\* C3 (as claimed): every connection is sent live events in strictly
\* increasing changeId order.
C3_StrictlyIncreasingPerConnection ==
    \A c \in Conns :
       \A j, k \in 1..Len(LiveIds(c)) : j < k => LiveIds(c)[j] < LiveIds(c)[k]

\* C4 (as claimed): at most one invocation of checkForChanges is in flight.
C4_NoOverlappingTicks == Cardinality(InFlight) <= 1

\* C5 (as claimed): within one process lifetime, after initialization, the
\* cursor never decreases.
C5_CursorNeverDecreases ==
    [][phase' # "down" => lastProcessedId' >= lastProcessedId]_vars

\* The poller under fair scheduling: the event loop runs every callback that
\* is due, and the store answers (the faults of a run are bounded).
PollLive ==
    /\ PollSpec
    /\ WF_vars(StartResume)
    /\ \A t \in Ticks : /\ WF_vars(TickStart(t))
                        /\ WF_vars(FetchResume(t))
                        /\ WF_vars(MarkResume(t))

\* A row whose payload is usable for its operation: processChange hands it
\* to broadcastChange.
Usable(id) == id \in DOMAIN log /\ Truthy(ChangeData(Row(id)).data)

\* C6: while the process is up, every row of the log with a usable payload
\* is eventually handed to broadcastChange (or has been already).
C6_EveryUsableRecordPublished ==
    \A r \in 1..MaxRecords :
       (phase = "up" /\ Usable(r)) ~> (r \in published \/ phase # "up")

\* C6 witness: a usable row was published and marked although a store query
\* threw before.
C6_Witness ==
    \E r \in DOMAIN log :
       Usable(r) /\ r \in published /\ log[r].processed /\ faults > 0 /\ phase = "up"

\* C7 (as claimed): in a publish in which a send fails, send is still called
\* on every open connection.
C7_FailureDoesNotAbortPublish ==
    lastPublish.failed # {} => lastPublish.open \subseteq lastPublish.attempted

\* C8 (as claimed): the connection whose send failed in the last publish is
\* CLOSED and out of the live set.
C8_FailedConnectionClosed ==
    \A c \in lastPublish.failed :
       readyState[c] = CLOSED /\ c \notin SeqSet(clients)

\* C9 (as claimed): on every connection INITIAL_DATA precedes every live
\* event.
C9_SnapshotBeforeLive ==
    \A c \in Conns :
       \A k \in 1..Len(sent[c]) :
          sent[c][k].type # "INITIAL_DATA"
             => \E j \in 1..(k - 1) : sent[c][j].type = "INITIAL_DATA"

\* C10 (as claimed): every connection that was open when an event was
\* published, its snapshot sent or not, had send called on it.
C10_PublishedToEveryJoined ==
    lastPublish.joined \subseteq lastPublish.attempted

\* ------------------------------------------------------- claims (snapshot)
Last(s) == s[Len(s)]

\* The INITIAL_DATA messages among a connection's messages.
Snapshots(c) == {k \in 1..Len(sent[c]) : sent[c][k].type = "INITIAL_DATA"}

\* The step in which the snapshot of connection c is sent.
SnapshotSent(c) ==
    /\ snap[c] = "fetching"
    /\ snap'[c] = "none"
    /\ Len(sent'[c]) = Len(sent[c]) + 1

\* C11: the INITIAL_DATA sent to a connection holds the orders table at a
\* version no older than the one the table had when the connection joined:
\* it reflects every change applied before the join.
C11_SnapshotNoOlderThanJoin ==
    [][\A c \in Conns :
          SnapshotSent(c) => Last(sent'[c]).data.val >= snapFrom[c]]_vars

\* C11 witness: a connection that joined after a change had been applied and
\* published holds a snapshot that reflects it.
C11_Witness ==
    \E c \in Conns :
       /\ joinPublished[c] # {}
       /\ \E k \in Snapshots(c) :
             \A i \in joinPublished[c] : sent[c][k].data.val >= i

\* C12 (as claimed): a connection that joined after record i was published
\* is never sent i live, its snapshot includes the effect of i, and it is
\* sent every record published after it joined.
C12_JoinedBetweenTwoRecords ==
    \A c \in Conns :
       /\ \A i \in joinPublished[c] :
             /\ \A k \in 1..Len(LiveIds(c)) : LiveIds(c)[k] # i
             /\ \A k \in Snapshots(c) : sent[c][k].data.val >= i
       /\ (c \in lastPublish.joined
             /\ lastPublish.changeId \notin joinPublished[c])
            => c \in lastPublish.attempted

\* ------------------------------------------------------ claims (the tick)
\* The row that callback t hands to processChange when it takes its next
\* step (none when it is idle or at the end of its batch).
Attempt(t) ==
    IF pc[t] = "fetched" /\ Len(changes[t]) > 0 THEN {changes[t][1]}
    ELSE IF pc[t] = "marked" /\ Len(changes[t]) > 1 THEN {changes[t][2]}
    ELSE {}

\* Callback t takes a step of the running process.
StepOf(t) ==
    /\ phase' # "down"
    /\ pc'[t] # pc[t] \/ changes'[t] # changes[t]

\* A row from which processChange builds no event.
Poison(row) == ~Truthy(ChangeData(row).data)

\* C13 (as claimed): the step that handles a row whose payload cannot be
\* normalized sends nothing and publishes nothing; the row had not been
\* handled and marked before (it is not attempted again); unless the UPDATE
\* throws the row is marked processed and the callback goes on with the rest
\* of its batch.
C13_PoisonRecordSkippedOnce ==
    [][\A t \in Ticks : \A row \in Attempt(t) :
          (StepOf(t) /\ Poison(row)) =>
             /\ sent' = sent
             /\ published' = published
             /\ row.id \in DOMAIN log /\ ~log[row.id].processed
             /\ faults' = faults =>
                   /\ log'[row.id].processed
                   /\ pc'[t] = "marked"
                   /\ Head(changes'[t]) = row]_vars

\* The step in which a poll query throws.
FetchFails == faults' = faults + 1 /\ lastFault' = "fetch"

\* C14: a poll query that throws changes neither the cursor, nor a row of
\* the log, nor a connection's messages; the timer stays set and the process
\* stays up with a callback free for the next firing, which polls from the
\* same cursor.
C14_FailedFetchHasNoEffect ==
    [][FetchFails =>
          /\ lastProcessedId' = lastProcessedId
          /\ log' = log
          /\ sent' = sent
          /\ published' = published
          /\ pollInterval' = 1
          /\ phase' = phase
          /\ \E t \in Ticks : pc'[t] = "idle"]_vars

\* C14 witness: after a failed poll query a callback has fetched rows above
\* the cursor and the timer is set.
C14_Witness ==
    /\ lastFault = "fetch"
    /\ pollInterval = 1
    /\ phase = "up"
    /\ \E t \in Ticks :
          /\ pc[t] = "fetched"
          /\ Len(changes[t]) > 0
          /\ Head(changes[t]).id > lastProcessedId

\* C15 (as claimed): when the query of initializeLastProcessedId throws,
\* start() does not set the timer and the listener is not listening.
C15_NoPollingAfterFailedInit ==
    [][(faults' = faults + 1 /\ lastFault' = "start")
          => pollInterval' = 0 /\ ~isListening']_vars

\* ------------------------------------------------ claims (the normalizer)
\* A payload the driver or JSON.parse turns into an object, and that object.
Normalizable(p) == p.form \in {"object", "text"}
Structured(p) == Obj(p.val)

\* A row whose operation has the payloads it needs.
UsablePayload(row) ==
    CASE row.operation_type = "INSERT" -> Normalizable(row.new_data)
      [] row.operation_type = "UPDATE" ->
            Normalizable(row.old_data) /\ Normalizable(row.new_data)
      [] row.operation_type = "DELETE" -> Normalizable(row.old_data)

\* The message `m` is the event of `row`.
EventOf(m, row) ==
    /\ m.type = row.operation_type
    /\ m.changeId = row.id
    /\ CASE row.operation_type = "INSERT" ->
               m.data = Structured(row.new_data)
         [] row.operation_type = "UPDATE" ->
               /\ m.data = Structured(row.new_data)
               /\ m.newData = Structured(row.new_data)
               /\ m.oldData = Structured(row.old_data)
         [] row.operation_type = "DELETE" ->
               m.data = Structured(row.old_data)

\* C16: a row with a usable payload is handed to broadcastChange by the time
\* its tick has passed it, and a connection holds at most one message for
\* it, which is the row's event: the operation as type, the row id as
\* changeId, and as data the after-image (INSERT, UPDATE, where it is newData
\* and oldData is the before-image) or the before-image (DELETE).
C16_OneEventPerUsableRow ==
    \A id \in DOMAIN log :
       UsablePayload(Row(id)) =>
          /\ (log[id].processed \/ id \in markFailed) => id \in published
          /\ \A c \in Conns :
                LET K == {k \in 1..Len(sent[c]) :
                            /\ sent[c][k].type # "INITIAL_DATA"
                            /\ sent[c][k].changeId = id}
                IN /\ Cardinality(K) <= 1
                   /\ \A k \in K : EventOf(sent[c][k], Row(id))

\* C16 witness: a connection holds the event of a DELETE row whose before-
\* image was JSON text and differs from its after-image.
C16_Witness ==
    \E c \in Conns : \E k \in 1..Len(sent[c]) :
       /\ sent[c][k].type = "DELETE"
       /\ log[1].old_data = Text(1)
       /\ log[1].new_data = Obj(2)
       /\ sent[c][k].data = Obj(1)

\* ------------------------------------------------- claims (connections)
\* The step of a tick that publishes a row.
Publishes == lastPublish' # lastPublish /\ lastPublish'.changeId # 0

\* C17: in a publish made while the peer of an open connection is not
\* reading, and in which no call throws, send is called on every open
\* connection, the other connections hold the event, the row is marked
\* processed and its callback goes on with its batch.
C17_StalledPeerDoesNotBlock ==
    [][(Publishes /\ lastPublish'.stalled \cap lastPublish'.open # {}
                  /\ faults' = faults) =>
          /\ lastPublish'.open \subseteq lastPublish'.attempted
          /\ \A c \in lastPublish'.open :
                Last(sent'[c]).changeId = lastPublish'.changeId
          /\ log'[lastPublish'.changeId].processed
          /\ \E t \in Ticks :
                /\ pc'[t] = "marked"
                /\ Head(changes'[t]).id = lastPublish'.changeId]_vars

\* C17 witness: an event was published with the first open connection's
\* peer not reading, and a later connection holds the event.
C17_Witness ==
    \E c, d \in Conns :
       /\ c \in lastPublish.stalled \cap lastPublish.open
       /\ d \in lastPublish.open \ lastPublish.stalled
       /\ OpenClients = <<c, d>>
       /\ Len(sent[d]) > 0
       /\ Last(sent[d]).changeId = lastPublish.changeId
       /\ log[lastPublish.changeId].processed

C19_ExactlyOneSnapshot ==
    \A c \in Conns :
       (readyState[c] = OPEN /\ snap[c] = "none")
          => Cardinality(Snapshots(c)) = 1

\* ---------------------------------------------------- claims (retention)
\* The delivered rows of the log.
Delivered == {i \in DOMAIN log : log[i].processed}

\* C20 (as claimed): a retention sweep that deletes rows leaves exactly
\* RetentionOffset delivered rows.
C20_SweepKeepsRetentionCount ==
    [][(DOMAIN log' # DOMAIN log /\ DOMAIN log' \subseteq DOMAIN log)
          => Cardinality(Delivered') = RetentionOffset]_vars

\* ------------------------------------------- claims (the normalizer, II)
\* The live events the connections hold.
LiveEvents ==
    {m \in UNION {SeqSet(sent[c]) : c \in Conns} : m.type # "INITIAL_DATA"}

\* C21 (as claimed): every UPDATE event a connection holds has both oldData
\* and newData, and an UPDATE row with an unusable before- or after-image
\* is not handed to broadcastChange.
C21_UpdateEventHasBothImages ==
    /\ \A m \in LiveEvents :
          m.type = "UPDATE" => Truthy(m.oldData) /\ Truthy(m.newData)
    /\ \A id \in DOMAIN log :
          (log[id].operation_type = "UPDATE" /\ ~UsablePayload(Row(id)))
             => id \notin published

\* C27 (as claimed): a row whose order_id is NULL is not handed to
\* broadcastChange and no connection holds an event for it.
C27_NullOrderIdDropped ==
    \A id \in DOMAIN log :
       log[id].order_id = 0 =>
          /\ id \notin published
          /\ \A m \in LiveEvents : m.changeId # id

\* ------------------------------------------------ claims (one publish)
\* C22 (as claimed): the step that publishes an event calls send on exactly
\* the connections that are OPEN when broadcastChange is called, and the
\* event is appended, once, to the messages of each of them whose send did
\* not fail; the messages of every other connection are left alone.
C22_ExactlyOncePerOpenConnection ==
    [][Publishes =>
          /\ lastPublish'.attempted = {c \in Conns : readyState[c] = OPEN}
          /\ \A c \in Conns :
                IF readyState[c] = OPEN /\ c \notin lastPublish'.failed
                THEN /\ Len(sent'[c]) = Len(sent[c]) + 1
                     /\ sent'[c] = Append(sent[c], Last(sent'[c]))
                     /\ Last(sent'[c]).changeId = lastPublish'.changeId
                ELSE sent'[c] = sent[c]]_vars

\* C23 (as claimed): ws never holds more than QueueBound messages of one
\* connection in its buffer.  (The code names no bound; the largest number
\* of events a run can publish is taken.)
QueueBound == MaxRecords

C23_QueueBounded ==
    \A c \in Conns : bufferedAmount[c] <= QueueBound

\* ------------------------------------------------------ claims (shutdown)
\* C24 (as claimed): from the moment stop() has run until the process
\* exits, the timer is cleared, the listener is not listening and no poll
\* callback is started; one in flight may go on.
C24_NoTickAfterStop ==
    [][phase = "stopping" =>
          /\ pollInterval = 0
          /\ ~isListening
          /\ phase' = "stopping" =>
                /\ \A t \in Ticks : pc[t] = "idle" => pc'[t] = "idle"
                /\ ~(faults' = faults + 1 /\ lastFault' = "fetch")]_vars

\* C25 (as claimed): when the signal handler has run stop() and
\* database.close() and is about to leave the process, no connection is
\* OPEN.
C25_ShutdownClosesConnections ==
    [][(phase = "stopping" /\ phase' = "down")
          => \A c \in Conns : readyState[c] # OPEN]_vars

\* ----------------------------------------------- claims (retention, II)
\* The step in which cleanupOldChanges fails.
SweepFails == faults' = faults + 1 /\ lastFault' = "cleanup"

\* C26: the step in which cleanupOldChanges fails changes neither the
\* cursor nor a row or its processed flag nor what was published and sent;
\* its callback returns, the timer stays set, and the rows the next poll
\* query returns are the same as if the sweep had not been tried.
C26_FailedSweepHasNoEffect ==
    [][SweepFails =>
          /\ lastProcessedId' = lastProcessedId
          /\ log' = log
          /\ published' = published
          /\ sent' = sent
          /\ markFailed' = markFailed
          /\ pollInterval' = pollInterval
          /\ isListening' = isListening
          /\ phase' = phase
          /\ \E t \in Ticks : pc[t] = "marked" /\ pc'[t] = "idle"
          /\ FetchUnprocessed(lastProcessedId)'
                = FetchUnprocessed(lastProcessedId)]_vars

\* C26 witness: a sweep failed, the row its tick marked is still marked and
\* is where the cursor is, no callback is in flight, the timer is set and a
\* row above the cursor waits for the next tick.
C26_Witness ==
    /\ lastFault = "cleanup"
    /\ phase = "up"
    /\ pollInterval = 1
    /\ InFlight = {}
    /\ lastProcessedId \in DOMAIN log
    /\ log[lastProcessedId].processed
    /\ Len(FetchUnprocessed(lastProcessedId)) > 0

\* ------------------------------------------------ claims (the tick, II)
\* C28 (as claimed): as long as no call has failed, no connection holds two
\* live events with the same changeId.
C28_NoDuplicateWithoutFailure ==
    faults = 0 =>
       \A c \in Conns :
          \A j, k \in 1..Len(LiveIds(c)) :
             j # k => LiveIds(c)[j] # LiveIds(c)[k]

\* C29: a row marked processed was handed to broadcastChange before, or is
\* a row from which processChange builds no event.
C29_MarkedOnlyAfterProcessed ==
    \A id \in DOMAIN log :
       log[id].processed => id \in published \/ Poison(Row(id))

\* C29 witness: a marked row that was published, and a marked row that
\* yields no event and was not published.
C29_Witness ==
    \E i, j \in DOMAIN log :
       /\ log[i].processed /\ ~Poison(Row(i)) /\ i \in published
       /\ log[j].processed /\ Poison(Row(j)) /\ j \notin published

\* ---------------------------------------------- claims (retention, III)
\* The rows not yet delivered.
Undelivered == {i \in DOMAIN log : ~log[i].processed}

\* A retention sweep that deletes rows.
Sweeps == DOMAIN log' # DOMAIN log /\ DOMAIN log' \subseteq DOMAIN log

\* C30: a sweep that deletes rows leaves the undelivered rows and the
\* greatest delivered id as they were, and with them the cursor that
\* initializeLastProcessedId computes.
C30_SweepKeepsCursorInputs ==
    [][Sweeps =>
          /\ Undelivered' = Undelivered
          /\ \A i \in Undelivered : log'[i] = log[i]
          /\ MaxProcessedId' = MaxProcessedId]_vars

\* C30 witness: rows were deleted by a sweep while a row is undelivered,
\* and the greatest delivered id is that of the last row.
C30_Witness ==
    /\ Cardinality(DOMAIN log) < nextId - 1
    /\ Undelivered # {}
    /\ MaxProcessedId = nextId - 1

\* ------------------------------------------------- claims (start and stop)
\* A call of stop() that finds the listener started or a timer handle.
Stops ==
    \/ isListening /\ ~isListening'
    \/ pollInterval # 0 /\ pollInterval' = 0

\* C31 (as claimed): at most one interval timer is live, and none is once
\* stop() has run with no start() awaiting.
C31_AtMostOneTimer ==
    [][/\ timers' <= 1
       /\ (Stops /\ startPending = 0) => timers' = 0]_vars

\* ------------------------------------------- claims (the binlog listener)
\* C32 (as claimed): once the owner's stop() has completed, the binlog
\* listener calls broadcastChange no more, does not set isListening again
\* and no start() of it is entered or goes on.
C32_NothingAfterBinlogStop ==
    [][stopCompleted =>
          /\ binlogSent' = binlogSent
          /\ binlogIsListening' = FALSE
          /\ mysqlEvents' # "live"
          /\ connecting' <= connecting]_vars

====
